---- MODULE Spec2Model ----
(***************************************************************************)
(* A model of bili-parser: parse_bili (src/bili_parser/__main__.py) and    *)
(* the Windows clipboard writer (src/bili_parser/_main_win.py).            *)
(*                                                                         *)
(* The program is single-threaded; it has four algorithms worth a state    *)
(* machine of their own, and each gets a specification over the same       *)
(* variables:                                                              *)
(*   SpecParse  parse_bili: short-link resolution, id extraction, the      *)
(*              three metadata calls, the formatter                        *)
(*   SpecImage  load_image: fetch, decode, encode, the resize loop         *)
(*   SpecCF     _prepare_cf_html: the CF_HTML header and payload           *)
(*   SpecClip   set_clipboard_text_and_image: the segment loop and the     *)
(*              clipboard session                                          *)
(*                                                                         *)
(* Strings are sequences of Unicode code points; bytes are numbers 0..255. *)
(***************************************************************************)
EXTENDS Integers, Sequences, FiniteSets, TLC

VARIABLES
    pc,              \* position in the function the specification runs
    \* ---- load_image
    img_size,        \* img.size, <<width, height>> of the decoded image
    current_width, current_height,
    png_len,         \* len(png_data)
    png_gen,         \* which img.save produced png_data: 0 the first, k the k-th resize
    image_ret,       \* what load_image returned: "none" yet, "empty" (""), "data_uri"
    \* ---- _prepare_cf_html
    html_content,    \* the argument, a string
    cf_html_data,    \* the bytes returned
    \* ---- set_clipboard_text_and_image
    segments,        \* the arguments: a sequence of segment kinds
    seg_i,           \* how many segments the for loop has consumed
    html_contents,   \* the list of markup pieces, by kind
    clip_open,       \* whether this process holds the clipboard open
    clip_calls,      \* the win32clipboard calls made so far, in order
    clip_data,       \* what the clipboard holds: "old", "empty" or "html"
    \* ---- parse_bili
    url_input,       \* the argument
    processed_url,
    bvid,
    video_info,
    requests,        \* the HTTP requests issued so far, in order
    ret              \* the return value: NoValue until parse_bili returns

imgVars == <<img_size, current_width, current_height, png_len, png_gen, image_ret>>
cfVars == <<html_content, cf_html_data>>
clipVars == <<segments, seg_i, html_contents, clip_open, clip_calls, clip_data>>
parseVars == <<url_input, processed_url, bvid, video_info, requests, ret>>

vars == <<pc, imgVars, cfVars, clipVars, parseVars>>

\* None, and a variable not yet assigned.
NoValue == [kind |-> "None"]

\* The variables of the functions a specification does not run stay as they start.
IdleImage ==
    /\ img_size = <<0, 0>>
    /\ current_width = 0
    /\ current_height = 0
    /\ png_len = 0
    /\ png_gen = 0
    /\ image_ret = "none"

IdleCF == html_content = <<>> /\ cf_html_data = <<>>

IdleClip ==
    /\ segments = <<>>
    /\ seg_i = 0
    /\ html_contents = <<>>
    /\ clip_open = FALSE
    /\ clip_calls = <<>>
    /\ clip_data = "old"

IdleParse ==
    /\ url_input = <<>>
    /\ processed_url = <<>>
    /\ bvid = NoValue
    /\ video_info = NoValue
    /\ requests = <<>>
    /\ ret = NoValue

\* ======================================================================
\* Strings and bytes
\* ======================================================================

\* The printable ASCII characters in code point order, from 32 (space) to 126
\* (the grave accent, 96, by name).
Ascii == <<
    " ", "!", "\"", "#", "$", "%", "&", "'", "(", ")", "*", "+", ",", "-", ".", "/",
    "0", "1", "2", "3", "4", "5", "6", "7", "8", "9", ":", ";", "<", "=", ">", "?",
    "@", "A", "B", "C", "D", "E", "F", "G", "H", "I", "J", "K", "L", "M", "N", "O",
    "P", "Q", "R", "S", "T", "U", "V", "W", "X", "Y", "Z", "[", "\\", "]", "^", "_",
    "BACKTICK", "a", "b", "c", "d", "e", "f", "g", "h", "i", "j", "k", "l", "m", "n", "o",
    "p", "q", "r", "s", "t", "u", "v", "w", "x", "y", "z", "{", "|", "}", "~">>

\* ord(c) of a printable ASCII character.
Ord(c) == 31 + CHOOSE i \in 1..Len(Ascii) : Ascii[i] = c

\* A string literal, written as a tuple of characters, as code points.
Lit(t) == [i \in 1..Len(t) |-> Ord(t[i])]

\* The code point of "\n".
NEWLINE == 10

RECURSIVE Concat(_)
\* "".join(parts)
Concat(parts) == IF parts = <<>> THEN <<>> ELSE Head(parts) \o Concat(Tail(parts))

\* s[i:] == sub at the 0-based index i
MatchesAt(s, sub, i) ==
    /\ i + Len(sub) <= Len(s)
    /\ \A k \in 1..Len(sub) : s[i + k] = sub[k]

\* str.find / bytes.find: the lowest 0-based index where sub occurs, or -1.
Find(s, sub) ==
    IF \E i \in 0..Len(s) : MatchesAt(s, sub, i)
    THEN CHOOSE i \in 0..Len(s) :
            /\ MatchesAt(s, sub, i)
            /\ \A j \in 0..(i - 1) : ~MatchesAt(s, sub, j)
    ELSE -1

\* sub in s
Contains(s, sub) == Find(s, sub) # -1

\* s.startswith(prefix)
StartsWith(s, prefix) == MatchesAt(s, prefix, 0)

\* s.endswith(suffix)
EndsWith(s, suffix) == Len(suffix) <= Len(s) /\ MatchesAt(s, suffix, Len(s) - Len(suffix))

\* str.encode('utf-8') of one code point (surrogates, which raise, are not drawn).
EncodeChar(cp) ==
    IF cp < 128 THEN <<cp>>
    ELSE IF cp < 2048 THEN <<192 + (cp \div 64), 128 + (cp % 64)>>
    ELSE IF cp < 65536 THEN
        <<224 + (cp \div 4096), 128 + ((cp \div 64) % 64), 128 + (cp % 64)>>
    ELSE <<240 + (cp \div 262144), 128 + ((cp \div 4096) % 64),
           128 + ((cp \div 64) % 64), 128 + (cp % 64)>>

RECURSIVE Encode(_)
\* str.encode('utf-8'): the encodings of the characters, in order (the string is
\* halved so that the recursion stays shallow).
Encode(s) ==
    IF s = <<>> THEN <<>>
    ELSE IF Len(s) = 1 THEN EncodeChar(s[1])
    ELSE LET half == Len(s) \div 2
         IN  Encode(SubSeq(s, 1, half)) \o Encode(SubSeq(s, half + 1, Len(s)))

\* The code point one UTF-8 unit u (a lead byte and its continuation bytes) stands
\* for, or -1 when the unit is ill-formed.
DecodeUnit(u) ==
    LET b1 == u[1]
        n == IF b1 < 128 THEN 1 ELSE IF b1 \in 192..223 THEN 2
             ELSE IF b1 \in 224..239 THEN 3 ELSE IF b1 \in 240..247 THEN 4 ELSE 0
    IN  IF n # Len(u) THEN -1
        ELSE IF n = 1 THEN b1
        ELSE IF n = 2 THEN ((b1 - 192) * 64) + (u[2] - 128)
        ELSE IF n = 3 THEN ((b1 - 224) * 4096) + ((u[2] - 128) * 64) + (u[3] - 128)
        ELSE ((b1 - 240) * 262144) + ((u[2] - 128) * 4096) + ((u[3] - 128) * 64)
                + (u[4] - 128)

\* bytes.decode('utf-8'): the bytes are cut before every byte that is not a
\* continuation byte (128..191) and each unit is decoded; <<-1>> marks ill-formed
\* input (where Python raises UnicodeDecodeError).
Decode(b) ==
    LET leads == {i \in 1..Len(b) : b[i] \notin 128..191}
        n == Cardinality(leads)
        lead(k) == CHOOSE i \in leads : Cardinality({j \in leads : j < i}) = k - 1
        stop(k) == IF k = n THEN Len(b) ELSE lead(k + 1) - 1
        cps == [k \in 1..n |-> DecodeUnit(SubSeq(b, lead(k), stop(k)))]
    IN  IF (b # <<>> /\ 1 \notin leads) \/ \E k \in 1..n : cps[k] = -1
        THEN <<-1>>
        ELSE cps

RECURSIVE Digits(_)
\* str(n) for n >= 0
Digits(n) == IF n < 10 THEN <<48 + n>> ELSE Digits(n \div 10) \o <<48 + (n % 10)>>

\* f"{n:010d}" for n >= 0: zero-padded to ten digits, longer when n needs more.
Format010d(n) ==
    LET d == Digits(n)
    IN  IF Len(d) >= 10 THEN d ELSE [i \in 1..(10 - Len(d)) |-> 48] \o d

\* ======================================================================
\* _prepare_cf_html
\* ======================================================================

version == Lit(<<"V", "e", "r", "s", "i", "o", "n", ":", "0", ".", "9">>)
start_html_offset_marker == Lit(<<"S", "t", "a", "r", "t", "H", "T", "M", "L", ":">>)
end_html_offset_marker == Lit(<<"E", "n", "d", "H", "T", "M", "L", ":">>)
start_fragment_offset_marker ==
    Lit(<<"S", "t", "a", "r", "t", "F", "r", "a", "g", "m", "e", "n", "t", ":">>)
end_fragment_offset_marker ==
    Lit(<<"E", "n", "d", "F", "r", "a", "g", "m", "e", "n", "t", ":">>)
dummy_offset == Lit(<<"0", "0", "0", "0", "0", "0", "0", "0", "0", "0">>)

\* The line end the source writes in its f-strings, "\\r\\n": a backslash, r,
\* a backslash, n.
LineEnd == Lit(<<"\\", "r", "\\", "n">>)

StartFragmentComment ==
    Lit(<<"<", "!", "-", "-", "S", "t", "a", "r", "t", "F", "r", "a", "g", "m", "e", "n",
          "t", "-", "-", ">">>)
EndFragmentComment ==
    Lit(<<"<", "!", "-", "-", "E", "n", "d", "F", "r", "a", "g", "m", "e", "n", "t", "-",
          "-", ">">>)
HtmlOpen == Lit(<<"<", "h", "t", "m", "l", ">", "<", "b", "o", "d", "y", ">">>)
HtmlClose == Lit(<<"<", "/", "b", "o", "d", "y", ">", "<", "/", "h", "t", "m", "l", ">">>)

\* full_html of line 24
FullHtml(content) ==
    HtmlOpen \o StartFragmentComment \o content \o EndFragmentComment \o HtmlClose

\* The header text with the four offsets given as strings.
HeaderText(sh, eh, sf, ef) ==
    version \o LineEnd
    \o start_html_offset_marker \o sh \o LineEnd
    \o end_html_offset_marker \o eh \o LineEnd
    \o start_fragment_offset_marker \o sf \o LineEnd
    \o end_fragment_offset_marker \o ef \o LineEnd

\* header_prefix_for_html_offset of lines 32-36
header_prefix_for_html_offset ==
    HeaderText(dummy_offset, dummy_offset, dummy_offset, dummy_offset)

\* _prepare_cf_html(html_content): the header followed by the encoded document.
PrepareCfHtml(content) ==
    LET full_html_utf8 == Encode(FullHtml(content))
        start_html_offset == Len(Encode(header_prefix_for_html_offset))
        end_html_offset == start_html_offset + Len(full_html_utf8)
        start_fragment_offset ==
            start_html_offset + Find(full_html_utf8, Encode(StartFragmentComment))
        end_fragment_offset ==
            start_html_offset + Find(full_html_utf8, Encode(EndFragmentComment))
                + Len(Encode(EndFragmentComment))
        header == Encode(HeaderText(Format010d(start_html_offset),
                                    Format010d(end_html_offset),
                                    Format010d(start_fragment_offset),
                                    Format010d(end_fragment_offset)))
    IN  header \o full_html_utf8

\* The most pieces a drawn fragment string is made of.
MaxPieces == 3

\* What the fragment strings are made of: ASCII text, characters of 2, 3 and 4
\* UTF-8 bytes (U+00E9, U+4E07, U+1F600), and the two sentinel texts themselves.
Pieces == { Lit(<<"<", "p", ">">>), <<233>>, <<19975>>, <<128512>>,
            StartFragmentComment, EndFragmentComment }

RECURSIVE PieceSeqs(_)
PieceSeqs(n) ==
    IF n = 0 THEN {<<>>}
    ELSE LET shorter == PieceSeqs(n - 1)
         IN  shorter \cup {<<p>> \o q : p \in Pieces, q \in {r \in shorter : Len(r) = n - 1}}

\* The fragment strings given to _prepare_cf_html.
Contents == {Concat(ps) : ps \in PieceSeqs(MaxPieces)}

InitCF ==
    /\ pc = "cf_call"
    /\ html_content \in Contents
    /\ cf_html_data = <<>>
    /\ IdleImage
    /\ IdleClip
    /\ IdleParse

CallPrepareCfHtml ==
    /\ pc = "cf_call"
    /\ cf_html_data' = PrepareCfHtml(html_content)
    /\ pc' = "cf_done"
    /\ UNCHANGED <<html_content, imgVars, clipVars, parseVars>>

NextCF == CallPrepareCfHtml

SpecCF == InitCF /\ [][NextCF]_vars

\* ---------------------------------------------------------------------
\* Properties of _prepare_cf_html
\* ---------------------------------------------------------------------

RECURSIVE ReadNumber(_, _, _)
\* The decimal number written in bytes b from 1-based position i on, after acc.
ReadNumber(b, i, acc) ==
    IF i <= Len(b) /\ b[i] \in 48..57
    THEN ReadNumber(b, i + 1, (acc * 10) + (b[i] - 48))
    ELSE acc

\* The value of the header field `name` of payload b, as a clipboard reader takes
\* it: the digits after the first occurrence of the field's name.
HeaderValue(b, name) == ReadNumber(b, Find(b, Encode(name)) + Len(Encode(name)) + 1, 0)

\* Where the header of payload b ends: the first byte of "<html>".
HeaderLen(b) == Find(b, Encode(HtmlOpen))

\* Where _prepare_cf_html put the sentinels it inserted around the content.
InsertedStartAt(b, content) == HeaderLen(b) + Len(Encode(HtmlOpen))
InsertedEndAt(b, content) ==
    InsertedStartAt(b, content) + Len(Encode(StartFragmentComment)) + Len(Encode(content))

\* C6: StartFragment is the byte position where the inserted start sentinel begins
\* and EndFragment the one where the inserted end sentinel ends; the bytes from
\* StartHTML to EndHTML decode to the wrapped document; and the header is exactly as
\* long as the one measured with placeholder offsets.
C6_OffsetsAtInsertedSentinels ==
    pc = "cf_done" =>
        LET b == cf_html_data
            sh == HeaderValue(b, start_html_offset_marker)
            eh == HeaderValue(b, end_html_offset_marker)
            sf == HeaderValue(b, start_fragment_offset_marker)
            ef == HeaderValue(b, end_fragment_offset_marker)
        IN  /\ sf = InsertedStartAt(b, html_content)
            /\ ef = InsertedEndAt(b, html_content) + Len(Encode(EndFragmentComment))
            /\ Decode(SubSeq(b, sh + 1, eh)) = FullHtml(html_content)
            /\ HeaderLen(b) = Len(Encode(header_prefix_for_html_offset))

\* ======================================================================
\* set_clipboard_text_and_image
\* ======================================================================

\* The most segments a call is given (parse_bili returns three).
MaxSegments == 3

\* A segment is a Text, an Image, or something the match statement has no case
\* for (the characters of an error string, when parse_bili returned one and
\* __main__ unpacked it).
SegmentKinds == {"Text", "Image", "Other"}

SegmentSeqs == UNION {[1..n -> SegmentKinds] : n \in 0..MaxSegments}

InitClip ==
    /\ pc = "clip_loop"
    /\ segments \in SegmentSeqs
    /\ seg_i = 0
    /\ html_contents = <<>>
    /\ clip_open = FALSE
    /\ clip_calls = <<>>
    /\ clip_data = "old"
    /\ IdleImage
    /\ IdleCF
    /\ IdleParse

\* case Text(text): a paragraph is appended, whatever the text is.
ClipText ==
    /\ pc = "clip_loop"
    /\ seg_i < Len(segments)
    /\ segments[seg_i + 1] = "Text"
    /\ html_contents' = Append(html_contents, "p")
    /\ seg_i' = seg_i + 1
    /\ UNCHANGED <<pc, segments, clip_open, clip_calls, clip_data>>
    /\ UNCHANGED <<imgVars, cfVars, parseVars>>

\* case Image(url): load_image returns a data URI, and an img element is appended,
\* or "", and the segment is dropped.
ClipImage ==
    /\ pc = "clip_loop"
    /\ seg_i < Len(segments)
    /\ segments[seg_i + 1] = "Image"
    /\ \E loaded_image_src \in {"", "data_uri"} :
        html_contents' = IF loaded_image_src # "" THEN Append(html_contents, "img")
                         ELSE html_contents
    /\ seg_i' = seg_i + 1
    /\ UNCHANGED <<pc, segments, clip_open, clip_calls, clip_data>>
    /\ UNCHANGED <<imgVars, cfVars, parseVars>>

\* No case matches: the segment adds nothing.
ClipOther ==
    /\ pc = "clip_loop"
    /\ seg_i < Len(segments)
    /\ segments[seg_i + 1] = "Other"
    /\ seg_i' = seg_i + 1
    /\ UNCHANGED <<pc, segments, html_contents, clip_open, clip_calls, clip_data>>
    /\ UNCHANGED <<imgVars, cfVars, parseVars>>

\* if not html_contents: return
ClipNothingToCopy ==
    /\ pc = "clip_loop"
    /\ seg_i = Len(segments)
    /\ html_contents = <<>>
    /\ pc' = "clip_done"
    /\ UNCHANGED <<clipVars, imgVars, cfVars, parseVars>>

\* "".join, _prepare_cf_html and RegisterClipboardFormat succeed.
ClipPrepare ==
    /\ pc = "clip_loop"
    /\ seg_i = Len(segments)
    /\ html_contents # <<>>
    /\ pc' = "clip_open"
    /\ UNCHANGED <<clipVars, imgVars, cfVars, parseVars>>

\* RegisterClipboardFormat raises: the outer except logs it.
ClipRegisterFail ==
    /\ pc = "clip_loop"
    /\ seg_i = Len(segments)
    /\ html_contents # <<>>
    /\ clip_calls' = Append(clip_calls, [call |-> "RegisterClipboardFormat", ok |-> FALSE])
    /\ pc' = "clip_done"
    /\ UNCHANGED <<segments, seg_i, html_contents, clip_open, clip_data>>
    /\ UNCHANGED <<imgVars, cfVars, parseVars>>

\* win32clipboard.OpenClipboard()
ClipOpen ==
    /\ pc = "clip_open"
    /\ clip_open' = TRUE
    /\ clip_calls' = Append(clip_calls, [call |-> "OpenClipboard", ok |-> TRUE])
    /\ pc' = "clip_empty"
    /\ UNCHANGED <<segments, seg_i, html_contents, clip_data>>
    /\ UNCHANGED <<imgVars, cfVars, parseVars>>

\* OpenClipboard raises (another window holds the clipboard): it is outside the
\* inner try, so the outer except logs it and nothing is closed.
ClipOpenFail ==
    /\ pc = "clip_open"
    /\ clip_calls' = Append(clip_calls, [call |-> "OpenClipboard", ok |-> FALSE])
    /\ pc' = "clip_done"
    /\ UNCHANGED <<segments, seg_i, html_contents, clip_open, clip_data>>
    /\ UNCHANGED <<imgVars, cfVars, parseVars>>

\* win32clipboard.EmptyClipboard()
ClipEmpty ==
    /\ pc = "clip_empty"
    /\ clip_data' = "empty"
    /\ clip_calls' = Append(clip_calls, [call |-> "EmptyClipboard", ok |-> TRUE])
    /\ pc' = "clip_set"
    /\ UNCHANGED <<segments, seg_i, html_contents, clip_open>>
    /\ UNCHANGED <<imgVars, cfVars, parseVars>>

\* A call inside the inner try raises: control goes to the finally clause.
MutClipRaise(at, call) ==
    /\ pc = at
    /\ clip_calls' = Append(clip_calls, [call |-> call, ok |-> FALSE])
    /\ pc' = "clip_done"
    /\ UNCHANGED <<segments, seg_i, html_contents, clip_open, clip_data>>
    /\ UNCHANGED <<imgVars, cfVars, parseVars>>
ClipRaise(at, call) ==
    /\ pc = at
    /\ clip_calls' = Append(clip_calls, [call |-> call, ok |-> FALSE])
    /\ pc' = "clip_close"
    /\ UNCHANGED <<segments, seg_i, html_contents, clip_open, clip_data>>
    /\ UNCHANGED <<imgVars, cfVars, parseVars>>

ClipEmptyFail == ClipRaise("clip_empty", "EmptyClipboard")

\* win32clipboard.SetClipboardData(cf_html_format, cf_html_data)
ClipSet ==
    /\ pc = "clip_set"
    /\ clip_data' = "html"
    /\ clip_calls' = Append(clip_calls, [call |-> "SetClipboardData", ok |-> TRUE])
    /\ pc' = "clip_close"
    /\ UNCHANGED <<segments, seg_i, html_contents, clip_open>>
    /\ UNCHANGED <<imgVars, cfVars, parseVars>>

ClipSetFail == ClipRaise("clip_set", "SetClipboardData")

\* finally: win32clipboard.CloseClipboard(). The process holds the clipboard, so
\* the call succeeds; a pending exception then reaches the outer except.
ClipClose ==
    /\ pc = "clip_close"
    /\ clip_open' = FALSE
    /\ clip_calls' = Append(clip_calls, [call |-> "CloseClipboard", ok |-> TRUE])
    /\ pc' = "clip_done"
    /\ UNCHANGED <<segments, seg_i, html_contents, clip_data>>
    /\ UNCHANGED <<imgVars, cfVars, parseVars>>

NextClip ==
    \/ ClipText
    \/ ClipImage
    \/ ClipOther
    \/ ClipNothingToCopy
    \/ ClipPrepare
    \/ ClipRegisterFail
    \/ ClipOpen
    \/ ClipOpenFail
    \/ ClipEmpty
    \/ ClipEmptyFail
    \/ ClipSet
    \/ ClipSetFail
    \/ ClipClose

SpecClip == InitClip /\ [][NextClip]_vars

\* ---------------------------------------------------------------------
\* Properties of set_clipboard_text_and_image
\* ---------------------------------------------------------------------

\* The names of the clipboard calls made, in order.
ClipCallNames == [i \in 1..Len(clip_calls) |-> clip_calls[i].call]

\* The clipboard calls that succeeded, in order.
ClipCallsDone == SelectSeq(clip_calls, LAMBDA c : c.ok)

\* Whether OpenClipboard has succeeded.
ClipWasOpened == \E i \in 1..Len(clip_calls) :
    clip_calls[i] = [call |-> "OpenClipboard", ok |-> TRUE]

\* C7: the session's calls come in the order open, clear, set, close, each at most
\* once and none of clear, set, close without a successful open before it; once the
\* function has returned the clipboard is not held open, and if it was opened the
\* last call is the close, also after a failed clear or set; the clipboard's content
\* changes only inside an open session; and if no segment produced markup no
\* clipboard call is made and the content is untouched.
C7_ClipboardSession ==
    /\ \E n \in 0..4 :
        ClipCallNames \in
            { SubSeq(<<"OpenClipboard", "EmptyClipboard", "SetClipboardData",
                       "CloseClipboard">>, 1, n),
              <<"RegisterClipboardFormat">>,
              <<"OpenClipboard", "EmptyClipboard", "CloseClipboard">>,
              <<"OpenClipboard", "CloseClipboard">> }
    /\ clip_open <=> (ClipWasOpened /\ ClipCallNames[Len(clip_calls)] # "CloseClipboard")
    /\ pc = "clip_done" => ~clip_open
    /\ (pc = "clip_done" /\ ClipWasOpened) =>
            clip_calls[Len(clip_calls)] = [call |-> "CloseClipboard", ok |-> TRUE]
    /\ clip_data # "old" => ClipWasOpened
    /\ clip_data = "html" =>
            SubSeq(ClipCallsDone, 1, 3) =
                << [call |-> "OpenClipboard", ok |-> TRUE],
                   [call |-> "EmptyClipboard", ok |-> TRUE],
                   [call |-> "SetClipboardData", ok |-> TRUE] >>
    /\ (pc = "clip_done" /\ html_contents = <<>>) =>
            (clip_calls = <<>> /\ clip_data = "old")
    /\ (\A i \in 1..Len(segments) : segments[i] = "Other") => clip_calls = <<>>

\* C7 witness: the clear succeeded, the set failed, and the clipboard was closed
\* before the function returned.
C7_Witness ==
    /\ pc = "clip_done"
    /\ ClipCallNames = <<"OpenClipboard", "EmptyClipboard", "SetClipboardData",
                         "CloseClipboard">>
    /\ clip_calls[3].ok = FALSE
    /\ clip_data = "empty"
    /\ ~clip_open

\* ======================================================================
\* load_image
\* ======================================================================

MAX_IMAGE_SIZE_BYTES == 5 * 1024 * 1024
MIN_DIMENSION == 100
\* RESIZE_FACTOR = 0.8 as the fraction RESIZE_NUM / RESIZE_DEN
RESIZE_NUM == 4
RESIZE_DEN == 5

\* The largest start dimension the model draws.
MaxDimension == 640

\* Start dimensions: around the floor (100), around the guard's edge (125),
\* and larger ones that shrink several times.
Dimensions == {1, 99, 100, 124, 125, 126, 157, 200, MaxDimension}

\* Encoded sizes the PNG encoder may produce: it is an external library, so every
\* save draws one, with no relation to the previous size assumed.
PngSizes == {1, MAX_IMAGE_SIZE_BYTES - 1, MAX_IMAGE_SIZE_BYTES,
             MAX_IMAGE_SIZE_BYTES + 1, 2 * MAX_IMAGE_SIZE_BYTES}

\* int(d * RESIZE_FACTOR). The double nearest 0.8 is 0.8 * (1 + 2^-54): for d below
\* 2^53 the product d * 0.8 rounds to the exact value when 4d/5 is an integer and
\* stays within the same unit interval otherwise, so truncation gives floor(4d/5).
Shrink(d) == (d * RESIZE_NUM) \div RESIZE_DEN

\* d * RESIZE_FACTOR >= MIN_DIMENSION, by the same argument: 4d >= 500.
MutAboveFloor(d) == d * RESIZE_NUM > MIN_DIMENSION
AboveFloor(d) == d * RESIZE_NUM >= MIN_DIMENSION * RESIZE_DEN

\* The while condition of the resize loop.
MutLoopCond == png_len >= MAX_IMAGE_SIZE_BYTES /\ AboveFloor(current_width)
    /\ AboveFloor(current_height)
LoopCond == png_len > MAX_IMAGE_SIZE_BYTES /\ AboveFloor(current_width)
    /\ AboveFloor(current_height)

InitImage ==
    /\ pc = "img_fetch"
    /\ IdleImage
    /\ IdleCF
    /\ IdleClip
    /\ IdleParse

\* Any exception inside the try block: "" is returned.
ImageFail(at) ==
    /\ pc = at
    /\ pc' = "img_done"
    /\ image_ret' = "empty"
    /\ UNCHANGED <<img_size, current_width, current_height, png_len, png_gen>>
    /\ UNCHANGED <<cfVars, clipVars, parseVars>>

\* requests.get, raise_for_status, response.raw.read
ImageFetch ==
    /\ pc = "img_fetch"
    /\ pc' = "img_open"
    /\ UNCHANGED <<imgVars, cfVars, clipVars, parseVars>>

ImageFetchError == ImageFail("img_fetch")

\* PILImage.open, the mode conversion, the first img.save, img.size
ImageEncode ==
    /\ pc = "img_open"
    /\ \E w \in Dimensions, h \in Dimensions, n \in PngSizes :
        /\ img_size' = <<w, h>>
        /\ current_width' = w
        /\ current_height' = h
        /\ png_len' = n
    /\ png_gen' = 0
    /\ pc' = "img_loop"
    /\ UNCHANGED <<image_ret, cfVars, clipVars, parseVars>>

ImageDecodeError == ImageFail("img_open")

\* One iteration of the while loop.
ImageResize ==
    /\ pc = "img_loop"
    /\ LoopCond
    /\ current_width' = Shrink(current_width)
    /\ current_height' = Shrink(current_height)
    /\ \E n \in PngSizes : png_len' = n
    /\ png_gen' = png_gen + 1
    /\ UNCHANGED <<pc, img_size, image_ret, cfVars, clipVars, parseVars>>

\* resize or save raising inside the loop
ImageResizeError ==
    /\ LoopCond
    /\ ImageFail("img_loop")

\* The loop exits; the bytes are base64-encoded and returned, oversized or not.
ImageReturn ==
    /\ pc = "img_loop"
    /\ ~LoopCond
    /\ pc' = "img_done"
    /\ image_ret' = "data_uri"
    /\ UNCHANGED <<img_size, current_width, current_height, png_len, png_gen>>
    /\ UNCHANGED <<cfVars, clipVars, parseVars>>

NextImage ==
    \/ ImageFetch
    \/ ImageFetchError
    \/ ImageEncode
    \/ ImageDecodeError
    \/ ImageResize
    \/ ImageResizeError
    \/ ImageReturn

SpecImage == InitImage /\ [][NextImage]_vars

\* The function runs to its return: nothing else is scheduled.
SpecImageFair == InitImage /\ [][NextImage]_vars /\ WF_vars(NextImage)

\* ---------------------------------------------------------------------
\* Properties of load_image
\* ---------------------------------------------------------------------

StrVal(s) == [kind |-> "str", v |-> s]
IntVal(n) == [kind |-> "int", v |-> n]

\* bool(x) of None, an int or a str
Truthy(x) == (x.kind = "int" /\ x.v # 0) \/ (x.kind = "str" /\ x.v # <<>>)

\* [a-zA-Z0-9]
AlnumChars == (48..57) \cup (65..90) \cup (97..122)
IsAlnum(c) == c \in AlnumChars

\* re.match(r"^[a-zA-Z0-9]+$", s): one or more alphanumerics up to the end of the
\* string, or up to a newline that ends the string ($ matches before it).
IsAlnumToken(s) ==
    LET body == IF s # <<>> /\ s[Len(s)] = NEWLINE THEN SubSeq(s, 1, Len(s) - 1) ELSE s
    IN  body # <<>> /\ \A i \in 1..Len(body) : IsAlnum(body[i])

B23Domain == Lit(<<"b", "2", "3", ".", "t", "v", "/">>)
BilibiliDomain == Lit(<<"b", "i", "l", "i", "b", "i", "l", "i", ".", "c", "o", "m">>)
BVPrefix == Lit(<<"B", "V">>)
\* Lengths below this make a bare alphanumeric token a short code.
ShortCodeLen == 15

\* The condition of line 78: the input is taken for a short link.
LooksLikeShortLink(url) ==
    \/ Contains(url, B23Domain)
    \/ /\ ~StartsWith(url, BVPrefix)
       /\ ~Contains(url, BilibiliDomain)
       /\ Len(url) < ShortCodeLen
       /\ IsAlnumToken(url)

HttpsB23 == Lit(<<"h", "t", "t", "p", "s", ":", "/", "/", "b", "2", "3", ".", "t", "v", "/">>)
HttpScheme == Lit(<<"h", "t", "t", "p">>)
HttpsScheme == Lit(<<"h", "t", "t", "p", "s", ":", "/", "/">>)
QuestionMark == Lit(<<"?">>)
Slash == Lit(<<"/">>)

\* potential_b23_url of lines 79-81
PotentialB23Url(url) ==
    IF Contains(url, B23Domain) THEN url ELSE HttpsB23 \o url

\* extract_bvid_from_url: re.search(r"BV([a-zA-Z0-9]+)", url).group(0), the leftmost
\* "BV" that an alphanumeric follows, with the longest run of alphanumerics.
BvidAt(url, i) == MatchesAt(url, BVPrefix, i) /\ i + 3 <= Len(url) /\ IsAlnum(url[i + 3])
ExtractBvid(url) ==
    IF ~\E i \in 0..Len(url) : BvidAt(url, i) THEN NoValue
    ELSE LET i == CHOOSE k \in 0..Len(url) :
                    BvidAt(url, k) /\ \A j \in 0..(k - 1) : ~BvidAt(url, j)
             stop == CHOOSE e \in (i + 3)..Len(url) :
                    /\ \A k \in (i + 3)..e : IsAlnum(url[k])
                    /\ e = Len(url) \/ ~IsAlnum(url[e + 1])
         IN  StrVal(SubSeq(url, i + 1, stop))

\* target_b23_url of lines 36-38
TargetB23Url(short_url_input) ==
    IF StartsWith(short_url_input, HttpScheme) THEN short_url_input
    ELSE HttpsScheme \o short_url_input

\* Lines 55-59: the query string and one trailing slash are cut off.
CleanLocation(location) ==
    LET query_index == Find(location, QuestionMark)
        cut == IF query_index # -1 THEN SubSeq(location, 1, query_index) ELSE location
    IN  IF EndsWith(cut, Slash) THEN SubSeq(cut, 1, Len(cut) - 1) ELSE cut

\* resolve_b23_url, given what requests.get does: None or a str.
ResolveB23Url(short_url_input, response) ==
    IF ~Contains(TargetB23Url(short_url_input), B23Domain) THEN StrVal(short_url_input)
    ELSE IF response.kind = "RequestException" THEN NoValue
    ELSE IF response.status_code \in {301, 302} THEN
        IF Truthy(response.Location) THEN StrVal(CleanLocation(response.Location.v))
        ELSE NoValue
    ELSE NoValue

\* The f-string of line 89.
ResolveErrorPrefix ==
    Lit(<<"E", "r", "r", "o", "r", ":", " ", "F", "a", "i", "l", "e", "d", " ", "t",
          "o", " ", "r", "e", "s", "o", "l", "v", "e", " ", "b", "2", "3", ".", "t",
          "v", " ", "s", "h", "o", "r", "t", " ", "l", "i", "n", "k", ":", " ">>)
ResolveError(potential_b23_url) == ResolveErrorPrefix \o potential_b23_url

\* The f-string of line 95.
ExtractErrorPrefix ==
    Lit(<<"E", "r", "r", "o", "r", ":", " ", "C", "o", "u", "l", "d", " ", "n", "o",
          "t", " ", "e", "x", "t", "r", "a", "c", "t", " ", "B", "V", "I", "D", " ",
          "f", "r", "o", "m", " ", "U", "R", "L", ":", " ">>)
OriginalInputLabel == Lit(<<" ", "(", "o", "r", "i", "g", "i", "n", "a", "l", " ", "i", "n", "p", "u",
          "t", ":", " ">>)
ClosingParen == Lit(<<")">>)
MutExtractError(processed, input) == ExtractErrorPrefix \o processed
ExtractError(processed, input) ==
    ExtractErrorPrefix \o processed \o OriginalInputLabel \o input \o ClosingParen

\* The longest input string that is enumerated character by character.
MaxInputLen == 3

\* The characters of the enumerated inputs: B, V, 1 and /.
InputChars == {Ord("B"), Ord("V"), Ord("1"), Ord("/")}

\* The inputs of parse_bili: every string of at most MaxInputLen input characters,
\* and links, short links and tokens of the lengths the heuristic looks at.
UrlInputs ==
    UNION {[1..n -> InputChars] : n \in 0..MaxInputLen}
    \cup { Lit(<<"b", "2", "3", ".", "t", "v", "/", "1">>),
           Lit(<<"h", "t", "t", "p", "s", ":", "/", "/", "b", "2", "3", ".", "t", "v",
                 "/", "B", "V", "1">>),
           Lit(<<"b", "i", "l", "i", "b", "i", "l", "i", ".", "c", "o", "m", "/", "B",
                 "V", "1">>),
           Lit(<<"b", "i", "l", "i", "b", "i", "l", "i", ".", "c", "o", "m">>),
           Lit(<<"1", "B", "1", "B", "1", "B", "1", "B", "1", "B", "1", "B", "1", "B">>),
           Lit(<<"1", "B", "1", "B", "1", "B", "1", "B", "1", "B", "1", "B", "1", "B",
                 "1">>),
           Lit(<<"h", "t", "t", "p", "s", ":", "/", "/", "w", "w", "w", ".", "b", "i",
                 "l", "i", "b", "i", "l", "i", ".", "c", "o", "m", "/", "v", "i", "d",
                 "e", "o", "/", "B", "V", "1", "B", "?", "p", "=", "1">>) }

\* What the short-link server may answer with in its Location header.
Locations ==
    { NoValue, StrVal(<<>>), StrVal(Lit(<<"/">>)), StrVal(Lit(<<"?", "1">>)),
      StrVal(Lit(<<"V", "1", "?">>)), StrVal(Lit(<<"V", "1", "/">>)),
      StrVal(Lit(<<"1", "?", "1", "/">>)),
      StrVal(Lit(<<"h", "t", "t", "p", "s", ":", "/", "/", "w", "w", "w", ".", "b", "i",
                "l", "i", "b", "i", "l", "i", ".", "c", "o", "m", "/", "v", "i", "d",
                "e", "o", "/", "B", "V", "1", "B", "?", "p", "=", "1", "/">>)) }

\* What requests.get on the short link does: it raises, or returns a response.
B23Responses ==
    {[kind |-> "RequestException"]}
    \cup [kind : {"response"}, status_code : {200, 301, 302, 404}, Location : Locations]

InitParse ==
    /\ pc = "p_start"
    /\ url_input \in UrlInputs
    /\ processed_url = url_input
    /\ bvid = NoValue
    /\ video_info = NoValue
    /\ requests = <<>>
    /\ ret = NoValue
    /\ IdleImage
    /\ IdleCF
    /\ IdleClip

\* Step 1, lines 78-90, when the input is taken for a short link.
ParseResolve ==
    /\ pc = "p_start"
    /\ LooksLikeShortLink(url_input)
    /\ \E response \in B23Responses :
        LET potential_b23_url == PotentialB23Url(url_input)
            resolved == ResolveB23Url(potential_b23_url, response)
            target == TargetB23Url(potential_b23_url)
        IN  /\ requests' =
                IF Contains(target, B23Domain)
                THEN Append(requests, [api |-> "b23", arg |-> StrVal(target),
                                       result |-> IF Truthy(resolved) THEN "ok" ELSE "failed"])
                ELSE requests
            /\ IF Truthy(resolved)
               THEN /\ processed_url' = resolved.v
                    /\ pc' = "p_extract"
                    /\ UNCHANGED ret
               ELSE IF Contains(potential_b23_url, B23Domain)
               THEN /\ ret' = StrVal(ResolveError(potential_b23_url))
                    /\ pc' = "p_done"
                    /\ UNCHANGED processed_url
               ELSE /\ pc' = "p_extract"
                    /\ UNCHANGED <<processed_url, ret>>
    /\ UNCHANGED <<url_input, bvid, video_info>>
    /\ UNCHANGED <<imgVars, cfVars, clipVars>>

\* Step 1 when the input is not taken for a short link: nothing is resolved.
ParseNoResolve ==
    /\ pc = "p_start"
    /\ ~LooksLikeShortLink(url_input)
    /\ pc' = "p_extract"
    /\ UNCHANGED <<parseVars, imgVars, cfVars, clipVars>>

\* ---------------------------------------------------------------------
\* Steps 2 to 4: id extraction, the metadata calls, the formatter
\* ---------------------------------------------------------------------

\* A key a JSON object does not have.
Absent == [kind |-> "absent"]

\* dict.get(key, default) for a value that is there or Absent
GetOr(x, default) == IF x = Absent THEN default ELSE x

\* 'N/A'
NA == StrVal(Lit(<<"N", "/", "A">>))

\* The unit of line 24, as the source file spells it.
TenThousandUnit == <<228, 184, 8225>>

DecimalPoint == Lit(<<".">>)

\* f"{(num / 10000):.1f}": the quotient rounded to one decimal. A tie (num ending
\* in 500) goes to the even digit here; Python rounds the double nearest the
\* quotient, which may lie on either side, so the model draws no such num.
OneDecimal(num) ==
    LET q == num \div 1000
        r == num % 1000
        tenths == IF r > 500 \/ (r = 500 /\ q % 2 = 1) THEN q + 1 ELSE q
    IN  Digits(tenths \div 10) \o DecimalPoint \o Digits(tenths % 10)

\* format_number, for a str or a non-negative int
FormatNumber(num) ==
    IF num.kind = "str" THEN num
    ELSE IF num.v >= 10000 THEN StrVal(OneDecimal(num.v) \o TenThousandUnit)
    ELSE StrVal(Digits(num.v))

\* The characters str.strip() removes.
SpaceChars == (9..13) \cup (28..32) \cup {133, 160, 5760} \cup (8192..8202)
                \cup {8232, 8233, 8239, 8287, 12288}
IsSpace(c) == c \in SpaceChars

\* str.strip()
Strip(s) ==
    IF \A i \in 1..Len(s) : IsSpace(s[i]) THEN <<>>
    ELSE LET first == CHOOSE i \in 1..Len(s) :
                        ~IsSpace(s[i]) /\ \A j \in 1..(i - 1) : IsSpace(s[j])
             last == CHOOSE i \in 1..Len(s) :
                        ~IsSpace(s[i]) /\ \A j \in (i + 1)..Len(s) : IsSpace(s[j])
         IN  SubSeq(s, first, last)

VideoUrlPrefix == Lit(<<"h", "t", "t", "p", "s", ":", "/", "/", "w", "w", "w", ".",
                        "b", "i", "l", "i", "b", "i", "l", "i", ".", "c", "o", "m",
                        "/", "v", "i", "d", "e", "o", "/">>)

\* video_info as lines 105-123 build it
InitialVideoInfo(id) ==
    [ title |-> NA, upName |-> NA, upMid |-> NoValue, upFans |-> NA, pic |-> NA,
      views |-> NA, danmaku |-> NA, likes |-> NA, coins |-> NA, favorites |-> NA,
      shares |-> NA, description |-> NA, watchingTotal |-> NA, watchingWeb |-> NA,
      cleanedUrl |-> StrVal(VideoUrlPrefix \o id.v),
      cid |-> NoValue, bvid |-> id ]

\* What str(e) of a caught exception is: text of the library's, not the program's.
ExceptionText == Lit(<<"e">>)

\* The returns of lines 176-181.
NetworkErrorPrefix ==
    Lit(<<"E", "r", "r", "o", "r", ":", " ", "N", "e", "t", "w", "o", "r", "k",
              " ", "r", "e", "q", "u", "e", "s", "t", " ", "f", "a", "i", "l", "e",
              "d", " ", "d", "u", "r", "i", "n", "g", " ", "A", "P", "I", " ", "c",
              "a", "l", "l", " ", "-", " ">>)
JsonErrorPrefix ==
    Lit(<<"E", "r", "r", "o", "r", ":", " ", "F", "a", "i", "l", "e", "d", " ",
              "t", "o", " ", "d", "e", "c", "o", "d", "e", " ", "J", "S", "O", "N",
              " ", "r", "e", "s", "p", "o", "n", "s", "e", " ", "f", "r", "o", "m",
              " ", "A", "P", "I", " ", "-", " ">>)
UnexpectedErrorPrefix ==
    Lit(<<"E", "r", "r", "o", "r", ":", " ", "A", "n", " ", "u", "n", "e", "x",
              "p", "e", "c", "t", "e", "d", " ", "e", "r", "r", "o", "r", " ", "o",
              "c", "c", "u", "r", "r", "e", "d", " ", "-", " ">>)
\* Which except clause catches what .json() raises depends on the installed
\* requests: its JSONDecodeError is a RequestException as well from 2.27 on and
\* is then caught by line 176, before that it is json's and reaches line 178.
CallError(kind) ==
    IF kind = "RequestException" THEN {NetworkErrorPrefix \o ExceptionText}
    ELSE IF kind = "JSONDecodeError"
    THEN {NetworkErrorPrefix \o ExceptionText, JsonErrorPrefix \o ExceptionText}
    ELSE {UnexpectedErrorPrefix \o ExceptionText}

\* How a call can end without a JSON object to read: requests.get or
\* raise_for_status raises RequestException, .json() raises JSONDecodeError, or
\* the decoded value has not the shape the code reads (AttributeError, TypeError).
CallFailures == {[kind |-> "RequestException"], [kind |-> "JSONDecodeError"],
                 [kind |-> "Exception"]}

\* Whether the try block of lines 125-181 is left through an except clause.
MutAbortsNotOnJson(response) == response.kind \in {"RequestException", "Exception"}
MutAbortsOnStatus(response) == response.kind # "json" \/ response.code # 0
Aborts(response) == response.kind \in {"RequestException", "JSONDecodeError", "Exception"}

\* view_data.get('code') == 0, and the same test of the other two calls
CodeIsZero(response) == response.kind = "json" /\ response.code = 0

\* The counts the API answers with: none is a rounding tie.
BigCount == 12345

\* The stat objects of the video-info answers.
Stats ==
    { [view |-> IntVal(BigCount), danmaku |-> IntVal(9999), like |-> IntVal(10000),
       coin |-> IntVal(1), favorite |-> IntVal(0), share |-> IntVal(99999)],
      [view |-> Absent, danmaku |-> IntVal(0), like |-> Absent, coin |-> IntVal(0),
       favorite |-> Absent, share |-> IntVal(0)] }

\* The uploader id and content id of the video-info answers: there or not, zero
\* or not.
OwnerAndCid ==
    { <<Absent, Absent>>, <<IntVal(0), IntVal(7)>>, <<IntVal(42), Absent>>,
      <<IntVal(42), IntVal(0)>>, <<IntVal(42), IntVal(7)>> }

\* The data objects of the video-info answers with code 0.
ViewData ==
    { [title |-> StrVal(Lit(<<"T">>)), desc |-> StrVal(Lit(<<"d">>)), pic |-> StrVal(Lit(<<"p">>)),
       name |-> StrVal(Lit(<<"u">>)), mid |-> oc[1], cid |-> oc[2], stat |-> st]
        : oc \in OwnerAndCid, st \in {s \in Stats : s.view # Absent} }
    \cup
    { [title |-> Absent, desc |-> StrVal(<<>>), pic |-> Absent,
       name |-> StrVal(Lit(<<"u", " ">>)), mid |-> oc[1], cid |-> oc[2], stat |-> st]
        : oc \in OwnerAndCid, st \in {s \in Stats : s.view = Absent} }

\* A non-zero code of an answer.
ErrorCode == -404

ViewResponses ==
    CallFailures
    \cup {[kind |-> "json", code |-> ErrorCode, data |-> Absent]}
    \cup [kind : {"json"}, code : {0}, data : ViewData]

RelationResponses ==
    CallFailures
    \cup {[kind |-> "json", code |-> ErrorCode, data |-> Absent]}
    \cup [kind : {"json"}, code : {0},
          data : [follower : {Absent, IntVal(0), IntVal(1), IntVal(BigCount)}]]

OnlineResponses ==
    CallFailures
    \cup [kind : {"json"}, code : {ErrorCode, 0}, data : {Absent}]
    \cup [kind : {"json"}, code : {0},
          data : [total : {IntVal(0), IntVal(23456)},
                  web_online : {Absent, IntVal(3)}, count : {Absent}]
                 \cup [total : {IntVal(0), IntVal(23456)},
                       web_online : {Absent, IntVal(0)}, count : {IntVal(2)}]]

\* How a call ended, for the request log.
ResultOf(response) ==
    IF response.kind # "json" THEN response.kind
    ELSE IF response.code = 0 THEN "ok" ELSE "nonzero"

\* Step 2, lines 93-123.
ParseExtract ==
    /\ pc = "p_extract"
    /\ bvid' = ExtractBvid(processed_url)
    /\ IF bvid' = NoValue
       THEN /\ ret' = StrVal(ExtractError(processed_url, url_input))
            /\ pc' = "p_done"
            /\ UNCHANGED video_info
       ELSE /\ video_info' = InitialVideoInfo(bvid')
            /\ pc' = "p_view"
            /\ UNCHANGED ret
    /\ UNCHANGED <<url_input, processed_url, requests>>
    /\ UNCHANGED <<imgVars, cfVars, clipVars>>

\* The assignments of lines 134-147.
WithViewData(info, data) ==
    [info EXCEPT
        !.title = GetOr(data.title, NA),
        !.description = GetOr(data.desc, NA),
        !.pic = GetOr(data.pic, NA),
        !.upName = GetOr(data.name, NA),
        !.upMid = GetOr(data.mid, NoValue),
        !.cid = GetOr(data.cid, NoValue),
        !.views = FormatNumber(GetOr(data.stat.view, IntVal(0))),
        !.danmaku = FormatNumber(GetOr(data.stat.danmaku, IntVal(0))),
        !.likes = FormatNumber(GetOr(data.stat.like, IntVal(0))),
        !.coins = FormatNumber(GetOr(data.stat.coin, IntVal(0))),
        !.favorites = FormatNumber(GetOr(data.stat.favorite, IntVal(0))),
        !.shares = FormatNumber(GetOr(data.stat.share, IntVal(0)))]

\* The assignments of lines 171-172.
WithOnlineData(info, data) ==
    [info EXCEPT
        !.watchingTotal = FormatNumber(GetOr(data.total, IntVal(0))),
        !.watchingWeb =
            IF data.web_online # Absent THEN FormatNumber(data.web_online)
            ELSE IF data.count # Absent THEN FormatNumber(data.count)
            ELSE NA]

\* One metadata call and what lines 125-181 do with its answer: an exception
\* returns an error string, code 0 fills video_info, any other code only warns.
MetadataCall(at, next, api, arg, response, filled) ==
    /\ pc = at
    /\ requests' = Append(requests, [api |-> api, arg |-> arg,
                                     result |-> ResultOf(response), response |-> response])
    /\ IF Aborts(response)
       THEN /\ \E message \in CallError(response.kind) : ret' = StrVal(message)
            /\ pc' = "p_done"
            /\ UNCHANGED video_info
       ELSE /\ video_info' = filled
            /\ pc' = next
            /\ UNCHANGED ret
    /\ UNCHANGED <<url_input, processed_url, bvid>>
    /\ UNCHANGED <<imgVars, cfVars, clipVars>>

\* A call that is not issued.
MetadataSkip(at, next) ==
    /\ pc = at
    /\ pc' = next
    /\ UNCHANGED <<parseVars, imgVars, cfVars, clipVars>>

\* 1. Get video details, lines 127-149.
ParseView ==
    \E response \in ViewResponses :
        MetadataCall("p_view", "p_relation", "view", bvid, response,
                     IF CodeIsZero(response) THEN WithViewData(video_info, response.data)
                     ELSE video_info)

\* if video_info['upMid']
MutHasUpMid(info) == TRUE
HasUpMid(info) == Truthy(info.upMid)

\* if video_info['cid']
HasCid(info) == Truthy(info.cid)

\* 2. Get UP fan count, lines 152-161.
ParseRelation ==
    /\ pc = "p_relation"
    /\ HasUpMid(video_info)
    /\ \E response \in RelationResponses :
        MetadataCall("p_relation", "p_online", "relation", video_info.upMid, response,
                     IF CodeIsZero(response)
                     THEN [video_info EXCEPT !.upFans =
                            FormatNumber(GetOr(response.data.follower, IntVal(0)))]
                     ELSE video_info)

ParseRelationSkipped ==
    /\ pc = "p_relation"
    /\ ~HasUpMid(video_info)
    /\ MetadataSkip("p_relation", "p_online")

\* 3. Get online viewers, lines 164-174.
ParseOnline ==
    /\ pc = "p_online"
    /\ HasCid(video_info)
    /\ \E response \in OnlineResponses :
        MetadataCall("p_online", "p_format", "online", video_info.cid, response,
                     IF CodeIsZero(response) /\ response.data # Absent
                     THEN WithOnlineData(video_info, response.data)
                     ELSE video_info)

ParseOnlineSkipped ==
    /\ pc = "p_online"
    /\ ~HasCid(video_info)
    /\ MetadataSkip("p_online", "p_format")

\* The literal text of the f-strings of lines 184-197, as the source file spells it.
FansLabel == <<32, 231, 178, 8240, 228, 184, 58, 32>>
WebLabelA == <<239, 188, 338>>
WebLabelB == <<32, 228, 186, 186, 229, 339, 168, 231, 189, 8216, 233, 161, 181, 231,
                   171, 175, 232, 167, 8218, 231, 339, 8249>>
TotalLabelA == <<287, 376, 8222, 226, 8364, 226, 8482, 8218, 239, 184, 32, 230, 8364,
                     187, 229, 8230, 177, 32>>
TotalLabelB == <<32, 228, 186, 186, 229, 339, 168, 232, 167, 8218, 231, 339, 8249>>
NoDescription == <<230, 8212, 160>>
Text1Parts == << <<230, 160, 8225, 233, 162, 732, 58, 32>>,
                 <<10, 85, 80, 228, 184, 187, 58, 32>> >>
Text2Parts == << <<287, 376, 8216, 8364, 230, 8217, 173, 230, 8221, 190, 58, 32>>,
                 <<32, 287, 376, 8217, 172, 229, 188, 185, 229, 185, 8226, 58, 32>>,
                 <<10, 287, 376, 8216, 231, 8218, 185, 232, 181, 58, 32>>,
                 <<32, 287, 376, 8217, 176, 230, 352, 8226, 229, 184, 58, 32>>,
                 <<10, 287, 376, 8220, 230, 8221, 182, 232, 8212, 58, 32>>,
                 <<32, 287, 376, 8221, 8212, 229, 710, 8224, 228, 186, 171, 58, 32>>,
                 <<10, 287, 376, 8220, 231, 174, 8364, 228, 187, 8249, 58, 32>>,
                 <<10>>,
                 <<10>> >>

\* '0'
ZeroText == StrVal(Lit(<<"0">>))

\* x not in ['N/A', '0']
Known(x) == x # NA /\ x # ZeroText

\* up_fans_text of line 184
MutUpFansText(info) == IF info.upFans # NA THEN FansLabel \o info.upFans.v ELSE <<>>
UpFansText(info) == IF Known(info.upFans) THEN FansLabel \o info.upFans.v ELSE <<>>

\* watching_web_text of line 186
WatchingWebText(info) ==
    IF Known(info.watchingWeb) THEN WebLabelA \o info.watchingWeb.v \o WebLabelB ELSE <<>>

\* watching_total_text of line 187
WatchingTotalText(info) ==
    IF Known(info.watchingTotal)
    THEN TotalLabelA \o info.watchingTotal.v \o TotalLabelB \o WatchingWebText(info)
    ELSE <<>>

\* text_to_copy_1 of lines 190-191
TextToCopy1(info) ==
    Strip(Text1Parts[1] \o info.title.v \o Text1Parts[2] \o info.upName.v
          \o UpFansText(info))

\* text_to_copy_2 of lines 192-197
TextToCopy2(info) ==
    Strip(Text2Parts[1] \o info.views.v \o Text2Parts[2] \o info.danmaku.v
          \o Text2Parts[3] \o info.likes.v \o Text2Parts[4] \o info.coins.v
          \o Text2Parts[5] \o info.favorites.v \o Text2Parts[6] \o info.shares.v
          \o Text2Parts[7]
          \o (IF Truthy(info.description) THEN info.description.v ELSE NoDescription)
          \o Text2Parts[8] \o WatchingTotalText(info) \o Text2Parts[9]
          \o info.cleanedUrl.v)

\* The tuple of lines 200-204.
SegmentsOf(info) ==
    << [kind |-> "Text", text |-> TextToCopy1(info)],
       [kind |-> "Image", url |-> info.pic.v],
       [kind |-> "Text", text |-> TextToCopy2(info)] >>

\* Step 4, lines 184-204.
ParseFormat ==
    /\ pc = "p_format"
    /\ ret' = [kind |-> "segments", v |-> SegmentsOf(video_info)]
    /\ pc' = "p_done"
    /\ UNCHANGED <<url_input, processed_url, bvid, video_info, requests>>
    /\ UNCHANGED <<imgVars, cfVars, clipVars>>

NextParse ==
    \/ ParseResolve
    \/ ParseNoResolve
    \/ ParseExtract
    \/ ParseView
    \/ ParseRelation
    \/ ParseRelationSkipped
    \/ ParseOnline
    \/ ParseOnlineSkipped
    \/ ParseFormat

SpecParse == InitParse /\ [][NextParse]_vars

\* ---------------------------------------------------------------------
\* Properties of parse_bili
\* ---------------------------------------------------------------------

\* The metadata requests issued so far, in order (the short-link request left out).
MetadataRequests == SelectSeq(requests, LAMBDA r : r.api # "b23")

\* The endpoints of a sequence of requests.
ApiNames(rs) == [i \in 1..Len(rs) |-> rs[i].api]

\* A short-link resolution was attempted and failed.
ResolutionFailed == \E i \in 1..Len(requests) :
    requests[i].api = "b23" /\ requests[i].result = "failed"

\* The return value is the short-link resolution error.
ReturnedResolveError == ret.kind = "str" /\ StartsWith(ret.v, ResolveErrorPrefix)

\* C1: after a failed short-link resolution, an input containing "b23.tv/" gets the
\* resolution error string, and any other input (a bare alphanumeric token) does not:
\* the original input stays the URL to extract the id from and extraction goes on.
C1_FailedResolutionFallsBack ==
    ResolutionFailed =>
        IF Contains(url_input, B23Domain)
        THEN pc = "p_done" /\ ReturnedResolveError
        ELSE processed_url = url_input /\ ~ReturnedResolveError

\* C2: when parse_bili has returned without a video id, it returned an error string
\* that contains the original input, not segments, and issued no metadata request;
\* and it is without an id whenever the URL it extracted from holds no "BV" that an
\* alphanumeric follows.
C2_NoIdErrorBeforeFetch ==
    /\ (pc = "p_done" /\ bvid = NoValue) =>
            /\ ret.kind = "str"
            /\ Contains(ret.v, url_input)
            /\ MetadataRequests = <<>>
    /\ bvid = NoValue => video_info = NoValue
    /\ (pc \notin {"p_start", "p_extract"}
            /\ ~\E i \in 1..Len(processed_url) :
                    /\ i + 2 <= Len(processed_url)
                    /\ processed_url[i] = Ord("B")
                    /\ processed_url[i + 1] = Ord("V")
                    /\ IsAlnum(processed_url[i + 2]))
        => bvid = NoValue

\* C2 witness: the short link resolved to a URL without an id, and the error string
\* was returned.
C2_Witness ==
    /\ pc = "p_done"
    /\ bvid = NoValue
    /\ processed_url # url_input
    /\ ~ReturnedResolveError
    /\ ret.kind = "str"

\* The follower count is known and greater than 0: the follower call answered with
\* code 0 and a positive count.
FollowerKnownPositive == \E i \in 1..Len(requests) :
    /\ requests[i].api = "relation"
    /\ requests[i].result = "ok"
    /\ requests[i].response.data.follower # Absent
    /\ requests[i].response.data.follower.v > 0

\* No issued metadata call ended in an exception.
NoCallRaised == \A i \in 1..Len(MetadataRequests) :
    MetadataRequests[i].result \in {"ok", "nonzero"}

\* C3: when an id was extracted and no issued call raised, parse_bili returns exactly
\* three segments, Text, Image, Text: the first starts with the title line, the
\* second is the cover URL, and the first carries the fan-count suffix if and only
\* if the follower count is known and greater than 0.
C3_ThreeSegmentsFanSuffix ==
    (pc = "p_done" /\ bvid # NoValue /\ NoCallRaised) =>
        /\ ret.kind = "segments"
        /\ Len(ret.v) = 3
        /\ <<ret.v[1].kind, ret.v[2].kind, ret.v[3].kind>> = <<"Text", "Image", "Text">>
        /\ StartsWith(ret.v[1].text, Text1Parts[1] \o video_info.title.v \o Text1Parts[2])
        /\ ret.v[2].url = video_info.pic.v
        /\ EndsWith(ret.v[3].text, video_info.cleanedUrl.v)
        /\ Contains(ret.v[1].text, FansLabel) <=> FollowerKnownPositive

\* C3 witness: all three calls answered with code 0, the follower count is 12345,
\* and the first segment carries the suffix.
C3_Witness ==
    /\ pc = "p_done"
    /\ ret.kind = "segments"
    /\ ApiNames(MetadataRequests) = <<"view", "relation", "online">>
    /\ \A i \in 1..3 : MetadataRequests[i].result = "ok"
    /\ FollowerKnownPositive
    /\ Contains(ret.v[1].text, FansLabel \o OneDecimal(BigCount) \o TenThousandUnit)

\* C4: a metadata call that ended in a network error or in malformed JSON is the
\* last request issued, parse_bili has returned, and what it returned is the error
\* string of that failure, not segments.
C4_TransportErrorAborts ==
    \A i \in 1..Len(requests) :
        (requests[i].api # "b23"
            /\ requests[i].result \in {"RequestException", "JSONDecodeError"})
        => /\ i = Len(requests)
           /\ pc = "p_done"
           /\ ret.kind = "str"
           /\ \/ StartsWith(ret.v, NetworkErrorPrefix)
              \/ /\ requests[i].result = "JSONDecodeError"
                 /\ StartsWith(ret.v, JsonErrorPrefix)

\* C4 witness: the video-info call filled its fields, the follower call returned
\* malformed JSON, and the error string was returned with no further call.
C4_Witness ==
    /\ pc = "p_done"
    /\ ApiNames(MetadataRequests) = <<"view", "relation">>
    /\ MetadataRequests[2].result = "JSONDecodeError"
    /\ video_info.title # NA
    /\ Truthy(video_info.cid)
    /\ ret.kind = "str"

\* Some metadata call of endpoint api answered with a non-zero code.
NonzeroFrom(api) == \E i \in 1..Len(requests) :
    requests[i].api = api /\ requests[i].result = "nonzero"

\* C5: an answer with a non-zero code aborts nothing and changes no field: the step
\* that receives it leaves video_info as it is and does not return; and when
\* parse_bili has returned after such an answer with no call having raised, it
\* returned the three segments, with the fields of that endpoint at their sentinel.
C5_NonzeroStatusIsPartial ==
    /\ [][ (Len(requests') = Len(requests) + 1
                /\ requests'[Len(requests')].result = "nonzero")
            => /\ video_info' = video_info
               /\ ret' = NoValue
               /\ pc' # "p_done" ]_vars
    /\ []( (pc = "p_done" /\ NoCallRaised /\ bvid # NoValue) =>
            /\ ret.kind = "segments" /\ Len(ret.v) = 3
            /\ NonzeroFrom("view") =>
                /\ \A f \in {"title", "upName", "pic", "views", "danmaku", "likes",
                             "coins", "favorites", "shares", "description"} :
                        video_info[f] = NA
                /\ video_info.upMid = NoValue /\ video_info.cid = NoValue
                /\ ret.v[2].url = NA.v
            /\ NonzeroFrom("relation") => video_info.upFans = NA
            /\ NonzeroFrom("online") =>
                video_info.watchingTotal = NA /\ video_info.watchingWeb = NA )

\* C5 witness: the follower call answered with a non-zero code; the fan count stayed
\* 'N/A' while the title and the viewer count are filled and the three segments
\* were returned.
C5_Witness ==
    /\ pc = "p_done"
    /\ ret.kind = "segments"
    /\ NonzeroFrom("relation")
    /\ video_info.upFans = NA
    /\ video_info.title # NA
    /\ video_info.watchingTotal # NA

\* C9: the metadata calls are issued in the order video-info, follower-count,
\* concurrent-viewer, each at most once; the follower-count call only after a
\* video-info answer with code 0 and a non-zero uploader id, which it is keyed by;
\* the concurrent-viewer call only after one with a non-zero content id; so after a
\* video-info answer with a non-zero code no further call is issued.
C9_CallOrder ==
    LET m == MetadataRequests
    IN  /\ ApiNames(m) \in { <<>>, <<"view">>, <<"view", "relation">>,
                            <<"view", "online">>, <<"view", "relation", "online">> }
        /\ \A i \in 1..Len(requests) : requests[i].api = "b23" => i = 1
        /\ \A i \in 1..Len(m) :
            /\ m[i].api = "view" => m[i].arg = bvid /\ bvid # NoValue
            /\ m[i].api = "relation" =>
                /\ m[1].result = "ok"
                /\ m[1].response.data.mid \notin {Absent, IntVal(0)}
                /\ m[i].arg = m[1].response.data.mid
            /\ m[i].api = "online" =>
                /\ m[1].result = "ok"
                /\ m[1].response.data.cid \notin {Absent, IntVal(0)}
                /\ m[i].arg = m[1].response.data.cid
        /\ (Len(m) >= 1 /\ m[1].result # "ok") => Len(m) = 1

\* C9 witness: all three calls were issued, in order.
C9_Witness ==
    /\ pc = "p_done"
    /\ ApiNames(MetadataRequests) = <<"view", "relation", "online">>
    /\ MetadataRequests[2].arg = IntVal(42)
    /\ MetadataRequests[3].arg = IntVal(7)

====
